---- MODULE Spec2Model ----
(***************************************************************************)
(* Model of src/src/sudoku.c: the puzzle engine (is_valid, fill_grid,      *)
(* count_solutions, has_unique_solution, remove_cells, generate_new_game)  *)
(* and the input handling of the game loop in main.                        *)
(*                                                                         *)
(* The grid is scaled down from 9x9 with 3x3 boxes to 4x4 with 2x2 boxes   *)
(* (BOX == 2); every literal 3 and 9 of the source that denotes the box    *)
(* edge or the grid edge is BOX, ROWS or COLS here.  The difficulty        *)
(* constants keep their proportion of the grid: 35, 45 and 55 of 81 cells  *)
(* become 7, 9 and 11 of 16 cells.                                         *)
(*                                                                         *)
(* rand() is a nondeterministic choice.  startTime, elapsed and score      *)
(* depend on the wall clock only and are left out, as is all drawing.      *)
(***************************************************************************)
EXTENDS Integers, Sequences, FiniteSets, TLC

\* ------------------------------------------------------------ constants --
BOX == 2
ROWS == 4
COLS == 4
EASY_CELLS_REMOVED == 7
MEDIUM_CELLS_REMOVED == 9
HARD_CELLS_REMOVED == 11
V_None == 0
FIXED == 0
DYNAMIC == 1
MAX_MISTAKES == 3

\* ---------------------------------------------------------------- bounds --
\* how many outcomes of fill_grid the game and the carving specification
\* start games from
MaxBoards == 2
\* remove_cells: how many cells of each kind a random probe of the carving
\* specification may land on
MaxProbeChoices == 2
\* main: how many cells of each kind (empty editable, fixed) a mouse click
\* of the game specification may land on
MaxClickChoices == 1
\* main: how many inputs (a mouse click, digit keys, backspace) one frame
\* may report
MaxEventsPerFrame == 2
\* how many cells of an empty grid are filled with arbitrary values before
\* the grid is handed to is_valid
MaxPlaced == 1
\* how many cells of a complete grid are emptied before the grid is handed
\* to count_solutions
MaxErased == 4

\* ------------------------------------------------------------------ types --
CellValues == 1..COLS
Indices == 0..(ROWS * COLS - 1)
NULL == << >>
Cell(v, t) == [value |-> v, type |-> t]

\* game_open: calloc gives every cell value 0 (V_None) and type 0 (FIXED)
game_open == [i \in Indices |-> Cell(0, 0)]

grid_fill(sudoku_instance, val, type) ==
  [i \in DOMAIN sudoku_instance |-> Cell(val, type)]

SetValue(grid, i, v) == [grid EXCEPT ![i].value = v]

\* ------------------------------------------------------------- is_valid --
\* a plausible slip: the box is not checked
is_valid_NoBox(grid, row, col, val) ==
  /\ \A x \in 0..(COLS - 1) :
       ~(x # col /\ grid[row * COLS + x].value = val)
  /\ \A y \in 0..(ROWS - 1) :
       ~(y # row /\ grid[y * COLS + col].value = val)

\* a plausible slip: the cell itself is not left out of the comparison
is_valid_NoSelfExclusion(grid, row, col, val) ==
  LET boxRow == (row \div BOX) * BOX
      boxCol == (col \div BOX) * BOX
  IN /\ \A x \in 0..(COLS - 1) : grid[row * COLS + x].value # val
     /\ \A y \in 0..(ROWS - 1) : grid[y * COLS + col].value # val
     /\ \A r \in 0..(BOX - 1) : \A c \in 0..(BOX - 1) :
          grid[(boxRow + r) * COLS + (boxCol + c)].value # val

is_valid(grid, row, col, val) ==
  LET boxRow == (row \div BOX) * BOX
      boxCol == (col \div BOX) * BOX
  IN /\ \A x \in 0..(COLS - 1) :
          ~(x # col /\ grid[row * COLS + x].value = val)
     /\ \A y \in 0..(ROWS - 1) :
          ~(y # row /\ grid[y * COLS + col].value = val)
     /\ \A r \in 0..(BOX - 1) : \A c \in 0..(BOX - 1) :
          ~( (boxRow + r # row \/ boxCol + c # col)
             /\ grid[(boxRow + r) * COLS + (boxCol + c)].value = val )

\* ------------------------------------------------------------ fill_grid --
\* the shuffle loop of fill_grid: for i = 0..8, j = rand() % 9, swap
RECURSIVE Shuffle(_, _)
Shuffle(numbers, i) ==
  IF i = COLS THEN {numbers}
  ELSE UNION { Shuffle([numbers EXCEPT ![i + 1] = numbers[j + 1],
                                       ![j + 1] = numbers[i + 1]], i + 1)
               : j \in 0..(COLS - 1) }

ShuffleOutcomes == Shuffle([k \in 1..COLS |-> k], 0)

\* fill_grid(grid, row, col) for every outcome of rand(): the set of
\* [ok |-> return value, grid |-> grid on return]
RECURSIVE FillGrid(_, _, _)
RECURSIVE TryNumbers(_, _, _, _, _, _)
\* the loop "for i in 0..8" over the shuffled numbers, from position i on,
\* entered with grid; sub[v] is the set of outcomes of the recursive call
\* made after placing v (from the grid the frame was entered with)
TryNumbers(grid, row, col, numbers, i, sub) ==
  IF i > COLS THEN {[ok |-> FALSE, grid |-> grid]}
  ELSE LET current_val == numbers[i]
           idx == row * COLS + col
       IN IF is_valid(grid, row, col, current_val)
          THEN UNION { IF o.ok THEN {o}
                       ELSE TryNumbers(SetValue(o.grid, idx, V_None),
                                       row, col, numbers, i + 1, sub)
                       : o \in IF grid = sub.entry
                               THEN sub.outcomes[current_val]
                               ELSE FillGrid(SetValue(grid, idx, current_val),
                                       IF col = COLS - 1 THEN row + 1 ELSE row,
                                       (col + 1) % COLS) }
          ELSE TryNumbers(grid, row, col, numbers, i + 1, sub)

FillGrid(grid, row, col) ==
  IF row = ROWS THEN {[ok |-> TRUE, grid |-> grid]}
  ELSE LET nextRow == IF col = COLS - 1 THEN row + 1 ELSE row
           nextCol == (col + 1) % COLS
           idx == row * COLS + col
           outcomes == [v \in CellValues |->
                          IF is_valid(grid, row, col, v)
                          THEN FillGrid(SetValue(grid, idx, v), nextRow, nextCol)
                          ELSE {}]
           sub == [entry |-> grid, outcomes |-> outcomes]
       IN \* the table of the recursive calls is evaluated before the loops
          IF DOMAIN outcomes = {} \/ outcomes = << >> THEN {}
          ELSE UNION { TryNumbers(grid, row, col, numbers, 1, sub)
                       : numbers \in ShuffleOutcomes }

\* ------------------------------------------------------ count_solutions --
RECURSIVE count_solutions(_, _)
RECURSIVE CountFrom(_, _, _, _, _)
\* a plausible slip: the loop stops at the first solution, whatever the limit
CountFrom_StopsAtFirst(grid, i, val, limit, solutions_found) ==
  IF val > COLS THEN solutions_found
  ELSE IF is_valid(grid, i \div COLS, i % COLS, val)
       THEN LET found == solutions_found
                         + count_solutions(SetValue(grid, i, val), limit)
            IN IF found >= 1 THEN found
               ELSE CountFrom(grid, i, val + 1, limit, found)
       ELSE CountFrom(grid, i, val + 1, limit, solutions_found)

\* the loop "for val = V_1..V_9" at the first empty cell i
CountFrom(grid, i, val, limit, solutions_found) ==
  IF val > COLS THEN solutions_found
  ELSE IF is_valid(grid, i \div COLS, i % COLS, val)
       THEN LET found == solutions_found
                         + count_solutions(SetValue(grid, i, val), limit)
            IN IF found >= limit THEN found
               ELSE CountFrom(grid, i, val + 1, limit, found)
       ELSE CountFrom(grid, i, val + 1, limit, solutions_found)

count_solutions(grid, limit) ==
  LET empties == {i \in Indices : grid[i].value = V_None}
  IN IF empties = {} THEN 1
     ELSE LET i == CHOOSE e \in empties : \A f \in empties : e <= f
          IN CountFrom(grid, i, 1, limit, 0)

\* a plausible slip: the count is capped at 1
has_unique_solution_Limit1(grid) == count_solutions(grid, 1) = 1

has_unique_solution(grid) == count_solutions(grid, 2) = 1

\* ----------------------------------------------------------------- state --
VARIABLES
  gameState,            \* GameState
  selectedDifficulty,   \* number of cells to remove
  selectedRow,          \* -1 = no cell selected
  selectedCol,
  mistakeCount,
  current_puzzle_grid,  \* the Puzzle: NULL or Indices -> Cell
  solution_grid,        \* the Solution: NULL or Indices -> Cell
  pc,                   \* "main": between two frames of the game loop;
                        \* "remove_cells": at the head of the while loop of
                        \* remove_cells, called from generate_new_game
  removed_count,        \* local of remove_cells
  arg,                  \* function specifications: the grid handed to a call
  call                  \* function specifications: the last call and its result

vars == <<gameState, selectedDifficulty, selectedRow, selectedCol,
          mistakeCount, current_puzzle_grid, solution_grid, pc,
          removed_count, arg, call>>

gameVars == <<gameState, selectedDifficulty, selectedRow, selectedCol,
              mistakeCount, current_puzzle_grid, solution_grid, pc,
              removed_count>>

NoCall == [fn |-> "none", row |-> 0, col |-> 0, val |-> 0, ret |-> 0]

\* the grid generate_new_game hands to fill_grid
EmptyGrid == grid_fill(game_open, V_None, DYNAMIC)

\* globals as initialised at lines 51-60 and 364-365
Init ==
  /\ gameState = "STATE_MENU"
  /\ selectedDifficulty = 0
  /\ selectedRow = -1
  /\ selectedCol = -1
  /\ mistakeCount = 0
  /\ current_puzzle_grid = NULL
  /\ solution_grid = NULL
  /\ pc = "main"
  /\ removed_count = 0
  /\ arg = EmptyGrid
  /\ call = NoCall

memcpy(dst, src) == [i \in DOMAIN dst |-> src[i]]

\* --------------------------------------- generate_new_game, remove_cells --
\* A frame of STATE_MENU in which at least one of KEY_ONE, KEY_TWO,
\* KEY_THREE is pressed, up to the first evaluation of the loop condition
\* of remove_cells; filled is the outcome of fill_grid on the scratch grid.
MenuFrame(keys, filled) ==
  /\ pc = "main"
  /\ gameState = "STATE_MENU"
  /\ keys # {}
  /\ selectedDifficulty' = IF 1 \in keys THEN EASY_CELLS_REMOVED
                           ELSE IF 2 \in keys THEN MEDIUM_CELLS_REMOVED
                           ELSE HARD_CELLS_REMOVED
  /\ gameState' = "STATE_PLAYING"
  /\ LET temp_solution == filled.grid
         sol == IF DOMAIN solution_grid = {} THEN game_open ELSE solution_grid
         puz == IF DOMAIN current_puzzle_grid = {} THEN game_open
                ELSE current_puzzle_grid
     IN /\ solution_grid' = memcpy(sol, temp_solution)
        /\ current_puzzle_grid' = memcpy(puz, temp_solution)
  /\ removed_count' = 0
  /\ pc' = "remove_cells"
  /\ UNCHANGED <<selectedRow, selectedCol, mistakeCount, arg, call>>

\* the grid while the probe of cell idx is checked
Probed(grid, idx) == [grid EXCEPT ![idx] = Cell(V_None, DYNAMIC)]

\* the body of the while loop of remove_cells with rand() giving row, col:
\* the grid and removed_count at the end of the iteration
\* a plausible slip: a restored probe is counted as a removal
RemoveCellsBody_CountsRestored(grid, removed, row, col) ==
  LET idx == row * COLS + col
  IN IF grid[idx].value = V_None
     THEN [grid |-> grid, removed_count |-> removed]
     ELSE IF ~has_unique_solution(Probed(grid, idx))
          THEN [grid |-> [grid EXCEPT ![idx] = Cell(grid[idx].value, FIXED)],
                removed_count |-> removed + 1]
          ELSE [grid |-> Probed(grid, idx), removed_count |-> removed + 1]

RemoveCellsBody(grid, removed, row, col) ==
  LET idx == row * COLS + col
      cell == grid[idx]
      backup_value == cell.value
  IN IF cell.value = V_None
     THEN [grid |-> grid, removed_count |-> removed]
     ELSE IF ~has_unique_solution(Probed(grid, idx))
          THEN [grid |-> [grid EXCEPT ![idx] = Cell(backup_value, FIXED)],
                removed_count |-> removed]
          ELSE [grid |-> Probed(grid, idx), removed_count |-> removed + 1]

\* a plausible slip: the Puzzle and the Solution share one array
RemoveCellsStep_SharedStorage(row, col) ==
  /\ pc = "remove_cells"
  /\ removed_count < selectedDifficulty
  /\ LET r == RemoveCellsBody(current_puzzle_grid, removed_count, row, col)
     IN /\ current_puzzle_grid' = r.grid
        /\ solution_grid' = r.grid
        /\ removed_count' = r.removed_count
  /\ UNCHANGED <<gameState, selectedDifficulty, selectedRow, selectedCol,
                 mistakeCount, pc, arg, call>>

\* one iteration of the while loop of remove_cells
RemoveCellsStep(row, col) ==
  /\ pc = "remove_cells"
  /\ removed_count < selectedDifficulty
  /\ LET r == RemoveCellsBody(current_puzzle_grid, removed_count, row, col)
     IN /\ current_puzzle_grid' = r.grid
        /\ removed_count' = r.removed_count
  /\ UNCHANGED <<gameState, selectedDifficulty, selectedRow, selectedCol,
                 mistakeCount, solution_grid, pc, arg, call>>

\* a plausible slip: the final pass is left out
Reclassify_Skipped(grid) == grid

\* a plausible slip: the final pass marks every cell FIXED
Reclassify_AllFixed(grid) ==
  [i \in DOMAIN grid |-> Cell(grid[i].value, FIXED)]

\* the final pass of remove_cells
Reclassify(grid) ==
  [i \in DOMAIN grid |->
     IF grid[i].value = V_None THEN Cell(grid[i].value, DYNAMIC)
     ELSE Cell(grid[i].value, FIXED)]

\* exit of the while loop, the final pass, the return of generate_new_game
\* and the rest of the menu frame (lines 387-394)
RemoveCellsReturn ==
  /\ pc = "remove_cells"
  /\ ~(removed_count < selectedDifficulty)
  /\ current_puzzle_grid' = Reclassify(current_puzzle_grid)
  /\ mistakeCount' = 0
  /\ selectedRow' = -1
  /\ selectedCol' = -1
  /\ pc' = "main"
  /\ removed_count' = 0
  /\ UNCHANGED <<gameState, selectedDifficulty, solution_grid, arg, call>>

\* ------------------------------------------------------------ main: play --
all_filled(grid) ==
  \A i \in Indices : ~(grid[i].type = DYNAMIC /\ grid[i].value = V_None)

\* a plausible slip: the guess is checked against the rules, not the Solution
KeyPressed_RuleCheck(st, key, row, col) ==
  IF row >= 0 /\ col >= 0
  THEN LET idx == row * COLS + col
       IN IF st.grid[idx].type = DYNAMIC
          THEN IF is_valid(st.grid, row, col, key)
               THEN LET g == SetValue(st.grid, idx, key)
                    IN [st EXCEPT !.grid = g,
                                  !.gameState = IF all_filled(g) THEN "STATE_WIN"
                                                ELSE st.gameState]
               ELSE [st EXCEPT !.mistakeCount = st.mistakeCount + 1,
                               !.gameState =
                                  IF st.mistakeCount + 1 >= MAX_MISTAKES
                                  THEN "STATE_LOSE" ELSE st.gameState]
          ELSE st
  ELSE st

\* the body of "for key = KEY_ONE..KEY_NINE" for one key that is pressed;
\* st = [grid, gameState, mistakeCount]
KeyPressed(st, key, row, col) ==
  IF row >= 0 /\ col >= 0
  THEN LET idx == row * COLS + col
           correct_value == solution_grid[idx].value
           guess == key
       IN IF st.grid[idx].type = DYNAMIC
          THEN IF guess = correct_value
               THEN LET g == SetValue(st.grid, idx, guess)
                    IN [st EXCEPT !.grid = g,
                                  !.gameState = IF all_filled(g) THEN "STATE_WIN"
                                                ELSE st.gameState]
               ELSE [st EXCEPT !.mistakeCount = st.mistakeCount + 1,
                               !.gameState =
                                  IF st.mistakeCount + 1 >= MAX_MISTAKES
                                  THEN "STATE_LOSE" ELSE st.gameState]
          ELSE st
  ELSE st

\* a plausible slip: backspace does not look at the classification
BackspacePressed_NoTypeCheck(grid, row, col) ==
  IF row >= 0 /\ col >= 0 THEN SetValue(grid, row * COLS + col, V_None)
  ELSE grid

\* KEY_BACKSPACE or KEY_DELETE pressed (lines 451-456)
BackspacePressed(grid, row, col) ==
  IF row >= 0 /\ col >= 0
  THEN IF grid[row * COLS + col].type = DYNAMIC
       THEN SetValue(grid, row * COLS + col, V_None) ELSE grid
  ELSE grid

RECURSIVE KeyLoop(_, _, _, _, _)
KeyLoop(st, key, keys, row, col) ==
  IF key > COLS THEN st
  ELSE KeyLoop(IF key \in keys THEN KeyPressed(st, key, row, col) ELSE st,
               key + 1, keys, row, col)

\* no mouse button pressed in the frame; a click outside the window
NoClick == -1
ClickOutside == -2

\* A frame of STATE_PLAYING.  click is NoClick, ClickOutside or the index
\* of the cell under the mouse; keys is the set of digit keys pressed;
\* backspace tells whether KEY_BACKSPACE or KEY_DELETE is pressed.
PlayFrame(click, keys, backspace) ==
  /\ pc = "main"
  /\ gameState = "STATE_PLAYING"
  /\ IF mistakeCount < MAX_MISTAKES
     THEN LET row == IF click = NoClick THEN selectedRow
                     ELSE IF click = ClickOutside THEN -1 ELSE click \div COLS
              col == IF click = NoClick THEN selectedCol
                     ELSE IF click = ClickOutside THEN -1 ELSE click % COLS
              st0 == [grid |-> current_puzzle_grid, gameState |-> gameState,
                      mistakeCount |-> mistakeCount]
              st1 == KeyLoop(st0, 1, keys, row, col)
              g2 == IF backspace THEN BackspacePressed(st1.grid, row, col)
                    ELSE st1.grid
          IN /\ selectedRow' = row
             /\ selectedCol' = col
             /\ current_puzzle_grid' = g2
             /\ gameState' = st1.gameState
             /\ mistakeCount' = st1.mistakeCount
     ELSE UNCHANGED <<selectedRow, selectedCol, current_puzzle_grid,
                      gameState, mistakeCount>>
  /\ UNCHANGED <<selectedDifficulty, solution_grid, pc, removed_count, arg, call>>

\* a frame of STATE_WIN in which KEY_R is pressed
WinFrame ==
  /\ pc = "main"
  /\ gameState = "STATE_WIN"
  /\ gameState' = "STATE_MENU"
  /\ UNCHANGED <<selectedDifficulty, selectedRow, selectedCol, mistakeCount,
                 current_puzzle_grid, solution_grid, pc, removed_count, arg, call>>

\* a frame of STATE_LOSE in which KEY_R is pressed
LoseFrame ==
  /\ pc = "main"
  /\ gameState = "STATE_LOSE"
  /\ gameState' = "STATE_MENU"
  /\ UNCHANGED <<selectedDifficulty, selectedRow, selectedCol, mistakeCount,
                 current_puzzle_grid, solution_grid, pc, removed_count, arg, call>>

\* --------------------------------------------------- inputs of the specs --
\* the n smallest elements of a set of integers
RECURSIVE FirstN(_, _)
FirstN(S, n) ==
  IF n = 0 \/ S = {} THEN {}
  ELSE LET m == CHOOSE x \in S : \A y \in S : x <= y
       IN {m} \cup FirstN(S \ {m}, n - 1)

RECURSIVE PickN(_, _)
PickN(S, n) ==
  IF n = 0 \/ S = {} THEN {}
  ELSE LET x == CHOOSE y \in S : TRUE
       IN {x} \cup PickN(S \ {x}, n - 1)

\* every outcome of fill_grid(temp_solution, 0, 0) in generate_new_game
FillOutcomes == FillGrid(EmptyGrid, 0, 0)

\* the outcomes the game specifications start games from
GameBoards == PickN(FillOutcomes, MaxBoards)

MenuKeySets == (SUBSET {1, 2, 3}) \ {{}}

\* the cells a probe may land on: up to n cells of each kind (filled and
\* not probed yet, filled and restored by an earlier probe, empty)
ProbeDraws(grid, n) ==
  LET filled == {i \in Indices : grid[i].value # V_None}
      restored == {i \in filled : grid[i].type = FIXED}
  IN FirstN(filled \ restored, n) \cup FirstN(restored, n)
     \cup FirstN(Indices \ filled, n)

\* the game specification: rand() makes remove_cells scan the grid in
\* row-major order: a probe lands on the first cell of each kind
ScanDraws(grid) == ProbeDraws(grid, 1)

\* the places a click may land on: up to n cells of each kind, or outside
ClickDraws(grid, n) ==
  LET editable == {i \in Indices : grid[i].type = DYNAMIC}
      empty == {i \in editable : grid[i].value = V_None}
  IN {NoClick, ClickOutside} \cup FirstN(empty, n)
     \cup FirstN(Indices \ editable, n)

\* what a frame of STATE_PLAYING may report: at most MaxEventsPerFrame of
\* a mouse click, the digit keys, backspace
FrameInputs(grid) ==
  {in \in [click : ClickDraws(grid, MaxClickChoices),
           keys : SUBSET CellValues, backspace : BOOLEAN] :
     (IF in.click = NoClick THEN 0 ELSE 1) + Cardinality(in.keys)
       + (IF in.backspace THEN 1 ELSE 0) <= MaxEventsPerFrame}

\* ------------------------------------------------- the game specification --
Next ==
  \/ /\ pc = "main" /\ gameState = "STATE_MENU"
     /\ \E keys \in MenuKeySets, filled \in GameBoards : MenuFrame(keys, filled)
  \/ /\ pc = "remove_cells"
     /\ \E i \in ScanDraws(current_puzzle_grid) :
           RemoveCellsStep(i \div COLS, i % COLS)
  \/ RemoveCellsReturn
  \/ /\ pc = "main" /\ gameState = "STATE_PLAYING"
     /\ \E in \in FrameInputs(current_puzzle_grid) :
           PlayFrame(in.click, in.keys, in.backspace)
  \/ WinFrame
  \/ LoseFrame

Spec == Init /\ [][Next]_vars

\* ---------------------------------------------- the carving specification --
\* generate_new_game alone, with more freedom for the probes
NextCarve ==
  \/ /\ pc = "main" /\ gameState = "STATE_MENU"
     /\ \E keys \in MenuKeySets, filled \in GameBoards : MenuFrame(keys, filled)
  \/ /\ pc = "remove_cells"
     /\ \E i \in ProbeDraws(current_puzzle_grid, MaxProbeChoices) :
           RemoveCellsStep(i \div COLS, i % COLS)
  \/ RemoveCellsReturn

SpecCarve == Init /\ [][NextCarve]_vars

\* --------------------------------------------- the function specifications --
Filled(grid) == {i \in Indices : grid[i].value # V_None}

\* fill_grid(arg, 0, 0) on the all-empty grid
CallFillGrid ==
  /\ arg = EmptyGrid
  /\ \E o \in FillOutcomes :
        /\ arg' = o.grid
        /\ call' = [fn |-> "fill_grid", row |-> 0, col |-> 0, val |-> 0,
                    ret |-> IF o.ok THEN 1 ELSE 0]
  /\ UNCHANGED gameVars

\* is_valid(arg, row, col, val); ret is 1 for true and 0 for false
CallIsValid(row, col, val) ==
  /\ call.fn # "is_valid"
  /\ call' = [fn |-> "is_valid", row |-> row, col |-> col, val |-> val,
              ret |-> IF is_valid(arg, row, col, val) THEN 1 ELSE 0]
  /\ UNCHANGED <<gameVars, arg>>

\* count_solutions(&arg, 2)
CallCountSolutions ==
  /\ call.fn # "count_solutions"
  /\ call' = [fn |-> "count_solutions", row |-> 0, col |-> 0, val |-> 2,
              ret |-> count_solutions(arg, 2)]
  /\ UNCHANGED <<gameVars, arg>>

\* the test grids: any value in any empty cell of a nearly empty grid
Place(i, v) ==
  /\ arg[i].value = V_None
  /\ Cardinality(Filled(arg)) < MaxPlaced
  /\ arg' = SetValue(arg, i, v)
  /\ call' = NoCall
  /\ UNCHANGED gameVars

NextValid ==
  \/ CallFillGrid
  \/ \E i \in Indices, v \in CellValues : Place(i, v)
  \/ \E row \in 0..(ROWS - 1), col \in 0..(COLS - 1), val \in CellValues :
        CallIsValid(row, col, val)

SpecValid == Init /\ [][NextValid]_vars

\* the rules of Sudoku, stated on coordinates: the rows, columns and boxes
RowUnit(r) == {<<r, c>> : c \in 0..(COLS - 1)}
ColUnit(c) == {<<r, c>> : r \in 0..(ROWS - 1)}
BoxUnit(br, bc) == {<<r, c>> \in (0..(ROWS - 1)) \X (0..(COLS - 1)) :
                      r \div BOX = br /\ c \div BOX = bc}
Units == {RowUnit(r) : r \in 0..(ROWS - 1)} \cup {ColUnit(c) : c \in 0..(COLS - 1)}
         \cup {BoxUnit(br, bc) : br \in 0..(ROWS \div BOX - 1),
                                 bc \in 0..(COLS \div BOX - 1)}
At(grid, p) == grid[p[1] * COLS + p[2]].value

\* no two filled cells of a row, column or box hold the same value
Consistent(grid) ==
  \A u \in Units : \A p \in u, q \in u :
     (p # q /\ At(grid, p) # V_None) => At(grid, p) # At(grid, q)

\* every row, column and box holds each of 1..9 exactly once
Complete(grid) ==
  \A u \in Units : \A v \in CellValues :
     Cardinality({p \in u : At(grid, p) = v}) = 1

\* all complete grids (as Indices -> CellValues), built row by row
RowPerms == {r \in [0..(COLS - 1) -> CellValues] :
               \A a \in 0..(COLS - 1), b \in 0..(COLS - 1) : a # b => r[a] # r[b]}
RowFits(rows, r) ==
  LET n == Len(rows)
  IN \A y \in 1..n : \A x \in 0..(COLS - 1) :
       /\ rows[y][x] # r[x]
       /\ (y - 1) \div BOX = n \div BOX =>
             \A x2 \in 0..(COLS - 1) : x2 \div BOX = x \div BOX => rows[y][x2] # r[x]
RECURSIVE SolvedRows(_)
SolvedRows(n) ==
  IF n = 0 THEN {<< >>}
  ELSE UNION { {Append(rows, r) : r \in {q \in RowPerms : RowFits(rows, q)}}
               : rows \in SolvedRows(n - 1) }
AllSolutions ==
  {[i \in Indices |-> rows[i \div COLS + 1][i % COLS]] : rows \in SolvedRows(ROWS)}

\* the complete grids that keep every filled cell of grid
Completions(grid) ==
  {s \in AllSolutions : \A i \in Indices :
      grid[i].value # V_None => s[i] = grid[i].value}

\* the test grids: a value in the first empty cell, breaking no rule
PlaceNext(v) ==
  /\ Filled(arg) # Indices
  /\ LET i == CHOOSE e \in Indices \ Filled(arg) :
                 \A f \in Indices \ Filled(arg) : e <= f
     IN /\ Consistent(SetValue(arg, i, v))
        /\ arg' = SetValue(arg, i, v)
  /\ call' = NoCall
  /\ UNCHANGED gameVars

\* the test grids: up to MaxErased cells of a complete grid emptied
Erase(i) ==
  /\ arg[i].value # V_None
  /\ Cardinality(Indices \ Filled(arg)) < MaxErased
  /\ \E b \in GameBoards :
        \A j \in Indices : arg[j].value \in {V_None, b.grid[j].value}
  /\ arg' = SetValue(arg, i, V_None)
  /\ call' = NoCall
  /\ UNCHANGED gameVars

NextSolve ==
  \/ CallFillGrid
  \/ \E v \in CellValues : PlaceNext(v)
  \/ \E i \in Indices : Erase(i)
  \/ CallCountSolutions

SpecSolve == Init /\ [][NextSolve]_vars

\* ----------------------------------------------------------------- claims --
Empty(grid) == Indices \ Filled(grid)
InLoop == pc = "remove_cells"
Returned == pc = "main" /\ gameState = "STATE_PLAYING"
Selected == selectedRow * COLS + selectedCol

\* C1: at every iteration boundary of the loop of remove_cells, and when
\* generate_new_game has returned, the Puzzle has exactly one completion
\* and count_solutions with limit 2 gives 1 on it.
C1_Uniqueness ==
  (InLoop \/ Returned) =>
     /\ count_solutions(current_puzzle_grid, 2) = 1
     /\ Cardinality(Completions(current_puzzle_grid)) = 1

\* a hard puzzle has been returned
C1_Witness ==
  /\ Returned
  /\ selectedDifficulty = HARD_CELLS_REMOVED
  /\ Cardinality(Empty(current_puzzle_grid)) = HARD_CELLS_REMOVED

\* C2: at every iteration boundary of the loop of remove_cells,
\* removed_count is the number of empty cells of the working grid; when
\* generate_new_game(cells_to_remove) has returned, the Puzzle has exactly
\* cells_to_remove empty cells and ROWS * COLS - cells_to_remove nonzero ones.
C2_RemovalCount ==
  /\ InLoop => removed_count = Cardinality(Empty(current_puzzle_grid))
  /\ Returned =>
       /\ Cardinality(Empty(current_puzzle_grid)) = selectedDifficulty
       /\ Cardinality(Filled(current_puzzle_grid))
            = ROWS * COLS - selectedDifficulty

\* an easy puzzle has been returned, some of its clues restored by a probe
C2_Witness ==
  /\ Returned
  /\ selectedDifficulty = EASY_CELLS_REMOVED
  /\ Cardinality(Filled(current_puzzle_grid)) = ROWS * COLS - EASY_CELLS_REMOVED

\* C3: fill_grid at (0, 0) on the all-empty grid returns true for every
\* outcome of the shuffles and leaves every cell nonzero and every row,
\* column and box holding each value exactly once.
C3_FillGridComplete ==
  call.fn = "fill_grid" =>
     /\ call.ret = 1
     /\ Filled(arg) = Indices
     /\ Complete(arg)
     /\ Consistent(arg)

\* fill_grid has returned a grid whose first row is not in counting order
C3_Witness ==
  /\ call.fn = "fill_grid"
  /\ call.ret = 1
  /\ arg[0].value = COLS
  /\ arg[1].value = 1

Classified(puzzle, solution) ==
  \A i \in Indices :
     /\ puzzle[i].value = V_None => puzzle[i].type = DYNAMIC
     /\ puzzle[i].value # V_None => puzzle[i].type = FIXED
     /\ puzzle[i].type = FIXED => puzzle[i].value = solution[i].value

\* C4: at the return of every generate_new_game call, also of one made
\* after an earlier game and its edits, every empty Puzzle cell is DYNAMIC,
\* every nonzero one is FIXED, and every FIXED cell holds the Solution's
\* value of its coordinate.
C4_ClassificationAtReturn ==
  [][RemoveCellsReturn => Classified(current_puzzle_grid', solution_grid')]_vars

\* the loop of remove_cells has exited in a game that follows a game with
\* mistakes, and a never-probed clue is still DYNAMIC before the final pass
C4_Witness ==
  /\ InLoop
  /\ removed_count = selectedDifficulty
  /\ mistakeCount > 0
  /\ \E i \in Filled(current_puzzle_grid) : current_puzzle_grid[i].type = DYNAMIC

\* C5: between the copy into solution_grid made by generate_new_game and
\* the next generate_new_game call, no step (a probe or a revert of
\* remove_cells, a digit guess, backspace or delete) changes solution_grid.
C5_SolutionFrame ==
  [][(InLoop \/ gameState # "STATE_MENU") => solution_grid' = solution_grid]_vars

\* the player has entered a digit and made a mistake; the Puzzle differs
\* from the Solution
C5_Witness ==
  /\ Returned
  /\ mistakeCount > 0
  /\ \E i \in Filled(current_puzzle_grid) : current_puzzle_grid[i].type = DYNAMIC
  /\ \E i \in Indices : current_puzzle_grid[i].value # solution_grid[i].value

\* value occurs in the row of (row, col) at another column, in its column
\* at another row, or in the box with origin (BOX*(row/BOX), BOX*(col/BOX))
\* at another position
Conflict(grid, row, col, value) ==
  \/ \E c \in 0..(COLS - 1) : c # col /\ At(grid, <<row, c>>) = value
  \/ \E r \in 0..(ROWS - 1) : r # row /\ At(grid, <<r, col>>) = value
  \/ \E dr \in 0..(BOX - 1), dc \in 0..(BOX - 1) :
        LET r == BOX * (row \div BOX) + dr
            c == BOX * (col \div BOX) + dc
        IN <<r, c>> # <<row, col>> /\ At(grid, <<r, c>>) = value

\* C6: is_valid(grid, row, col, value) is false exactly when value occurs
\* in the same row at another column, in the same column at another row or
\* in the same box at another position; whatever the cell (row, col) itself
\* holds, the result is the same.
C6_IsValid ==
  call.fn = "is_valid" =>
     /\ call.ret = 0 <=> Conflict(arg, call.row, call.col, call.val)
     /\ \A w \in 0..COLS :
          is_valid(SetValue(arg, call.row * COLS + call.col, w),
                   call.row, call.col, call.val) <=> call.ret = 1

\* is_valid has answered true for the value the cell itself holds, in a
\* complete grid
C6_Witness ==
  /\ call.fn = "is_valid"
  /\ call.ret = 1
  /\ Filled(arg) = Indices
  /\ arg[call.row * COLS + call.col].value = call.val

\* C7: no step of play (a selection, digit keys, backspace or delete)
\* changes the classification of any cell or the value of a FIXED cell.
C7_FixedCellsKept ==
  [][(pc = "main" /\ gameState # "STATE_MENU") =>
        \A i \in Indices :
           /\ current_puzzle_grid'[i].type = current_puzzle_grid[i].type
           /\ current_puzzle_grid[i].type = FIXED =>
                current_puzzle_grid'[i].value = current_puzzle_grid[i].value]_vars

\* a FIXED cell is selected in a game in which the player has entered a
\* digit and made a mistake
C7_Witness ==
  /\ Returned
  /\ selectedRow >= 0 /\ selectedCol >= 0
  /\ current_puzzle_grid[Selected].type = FIXED
  /\ mistakeCount > 0
  /\ \E i \in Filled(current_puzzle_grid) : current_puzzle_grid[i].type = DYNAMIC

\* C8: in a frame of play that reports one digit key, with a DYNAMIC cell
\* selected: the Solution's value of the cell is written into it and the
\* mistake counter stays; any other digit leaves the Puzzle unchanged and
\* adds exactly one to the mistake counter.
C8_GuessAgainstSolution ==
  [][\A click \in Indices \cup {NoClick}, key \in CellValues :
        ( /\ PlayFrame(click, {key}, FALSE)
          /\ mistakeCount < MAX_MISTAKES
          /\ selectedRow' >= 0 /\ selectedCol' >= 0
          /\ current_puzzle_grid[selectedRow' * COLS + selectedCol'].type = DYNAMIC )
        => LET idx == selectedRow' * COLS + selectedCol'
           IN IF key = solution_grid[idx].value
              THEN /\ current_puzzle_grid' = SetValue(current_puzzle_grid, idx, key)
                   /\ mistakeCount' = mistakeCount
              ELSE /\ current_puzzle_grid' = current_puzzle_grid
                   /\ mistakeCount' = mistakeCount + 1]_vars

\* after a rejected and an accepted guess, an empty DYNAMIC cell is
\* selected for which is_valid holds of a digit that is not the Solution's
C8_Witness ==
  /\ Returned
  /\ mistakeCount > 0
  /\ mistakeCount < MAX_MISTAKES
  /\ \E i \in Filled(current_puzzle_grid) : current_puzzle_grid[i].type = DYNAMIC
  /\ selectedRow >= 0 /\ selectedCol >= 0
  /\ current_puzzle_grid[Selected].type = DYNAMIC
  /\ current_puzzle_grid[Selected].value = V_None
  /\ \E k \in CellValues :
        /\ k # solution_grid[Selected].value
        /\ is_valid(current_puzzle_grid, selectedRow, selectedCol, k)

\* C9: on a grid whose filled cells break no rule, count_solutions with
\* limit 2 returns 0 when there is no completion, 1 when there is exactly
\* one, and at least 2 when there are two or more.
C9_CountSolutions ==
  (call.fn = "count_solutions" /\ Consistent(arg)) =>
     LET n == Cardinality(Completions(arg))
     IN /\ n = 0 => call.ret = 0
        /\ n = 1 => call.ret = 1
        /\ n >= 2 => call.ret >= 2

\* count_solutions has left its loop early on a grid with more than two
\* completions
C9_Witness ==
  /\ call.fn = "count_solutions"
  /\ Consistent(arg)
  /\ Cardinality(Completions(arg)) > 2
  /\ call.ret >= 2

\* C10: from every state of the loop of remove_cells with fewer than the
\* requested number of cells removed, some filled cell can still be removed
\* with the grid keeping exactly one solution.
C10_ProbeCanSucceed ==
  (InLoop /\ removed_count < selectedDifficulty) =>
     \E i \in Filled(current_puzzle_grid) :
        Cardinality(Completions(Probed(current_puzzle_grid, i))) = 1

\* C11 as stated: when the loop of remove_cells has exited, every empty
\* cell is already DYNAMIC and every nonzero cell already FIXED, so the
\* final pass changes no cell's classification.
C11_FinalPassChangesNothing ==
  [][RemoveCellsReturn =>
        \A i \in Indices :
           current_puzzle_grid'[i].type = current_puzzle_grid[i].type]_vars

\* C11 amended: when the loop of remove_cells has exited, every empty cell
\* is already DYNAMIC and every FIXED cell is nonzero, but a nonzero cell may
\* still be DYNAMIC; the final pass changes no value, makes exactly the
\* nonzero DYNAMIC cells FIXED, and a second final pass would change nothing.
C11_FinalPassFixesClues ==
  [][RemoveCellsReturn =>
        /\ \A i \in Indices :
              /\ current_puzzle_grid'[i].value = current_puzzle_grid[i].value
              /\ current_puzzle_grid[i].value = V_None =>
                    /\ current_puzzle_grid[i].type = DYNAMIC
                    /\ current_puzzle_grid'[i].type = DYNAMIC
              /\ current_puzzle_grid[i].value # V_None =>
                    current_puzzle_grid'[i].type = FIXED
        /\ Reclassify(current_puzzle_grid') = current_puzzle_grid']_vars

\* the loop of remove_cells has exited with a restored clue (FIXED) and a
\* never-probed clue (still DYNAMIC) in the grid
C11_Witness ==
  /\ InLoop
  /\ removed_count = selectedDifficulty
  /\ \E i \in Filled(current_puzzle_grid) : current_puzzle_grid[i].type = DYNAMIC
  /\ \E i \in Filled(current_puzzle_grid) : current_puzzle_grid[i].type = FIXED

\* C12: in every reachable state of the game loop, over any number of
\* games and also after frames that report several digit keys at once,
\* mistakeCount is between 0 and 3.
C12_MistakesInRange ==
  mistakeCount \in 0..MAX_MISTAKES

====
